---- MODULE Spec2Model ----
(***************************************************************************)
(* The user resource service of src/app.py (the live revision, lines       *)
(* 94-163): a Flask application with six routes over one SQLAlchemy model, *)
(* User, stored in SQLite.                                                 *)
(*                                                                         *)
(* The handlers call into the storage layer; what those calls do is part   *)
(* of what the program does, and is modelled where the handler calls it:   *)
(*   - id is db.Integer, primary_key=True with no autoincrement option: on *)
(*     SQLite that is INTEGER PRIMARY KEY, whose insert picks one more     *)
(*     than the largest id now in the table (1 when the table is empty);   *)
(*   - nullable=False is NOT NULL: None is refused at commit, "" is text;  *)
(*   - User.query.get loads the row into the request's session; assigning  *)
(*     an attribute changes the loaded object only; db.session.commit()    *)
(*     flushes one UPDATE that sets the attributes whose value differs     *)
(*     from the loaded one, WHERE id = the object's id, and raises when    *)
(*     that UPDATE matches no row; a DELETE that matches no row only warns;*)
(*   - the session is discarded when the request ends, so a handler that   *)
(*     raises before commit writes nothing.                                *)
(*                                                                         *)
(* Two specifications.  Spec handles one request at a time, each action a  *)
(* whole handler, and records the history the claims speak of.  ConcSpec   *)
(* is the server with two threads (app.run serves each request in its own  *)
(* thread): one thread serves whole requests while a request of the other  *)
(* is between its lookup and its commit.                                   *)
(***************************************************************************)
EXTENDS Integers, FiniteSets, Sequences, TLC

VARIABLES
    users,       \* the table user: id -> [name, role]
    th,          \* the session of the request that is between lookup and commit
    resp,        \* the response sent last: [op, id, status, body]
    written,     \* history: id -> the pair supplied by the last successful create or
                 \* update of that id, for the ids created and not since deleted
    assigned,    \* history: every id an insert has been given
    onlyCreates, \* history: no update and no delete has succeeded so far
    creates      \* history: the pairs supplied by the successful creates, in order,
                 \* kept while onlyCreates

vars == <<users, th, resp, written, assigned, onlyCreates, creates>>

hist == <<written, assigned, onlyCreates, creates>>

-----------------------------------------------------------------------------
(* Bounds and value domains *)

MaxId == 2

Keys == {"name", "role"}

\* Python None, the value of a JSON null
None == "<None>"

Texts == {"", "a"}

Values == Texts \cup {None}

\* request.get_json(): a JSON object with any subset of the keys
Bodies == UNION {[K -> Values] : K \in SUBSET Keys}

\* the bodies no value of which is null
TextBodies == UNION {[K -> Texts] : K \in SUBSET Keys}

\* the ids requests name: each is, at some time, an id with no record
Ids == 1..MaxId

-----------------------------------------------------------------------------
(* Responses *)

NotFoundBody == [error |-> "User not found"]

Reply(op, id, status, body) == [op |-> op, id |-> id, status |-> status, body |-> body]

\* an exception no handler catches: Flask answers 500
Fault(op, id, exc, what) == Reply(op, id, 500, [exception |-> exc, arg |-> what])

ToJson(id, row) == [id |-> id, name |-> row.name, role |-> row.role]

-----------------------------------------------------------------------------
(* Storage layer as the handlers use it *)

Max(S) == CHOOSE m \in S : \A x \in S : x <= m

\* the id SQLite gives an insert into an INTEGER PRIMARY KEY column
NextId(us) == IF DOMAIN us = {} THEN 1 ELSE Max(DOMAIN us) + 1

\* (mutant) the columns declared without nullable=False
NotNullOff(row) == TRUE

\* NOT NULL on name and role
NotNullOk(row) == row.name # None /\ row.role # None

\* db.session.add(new_user); db.session.commit()
Insert(us, row) ==
    IF NotNullOk(row)
    THEN [ok |-> TRUE, exc |-> "", users |-> us @@ (NextId(us) :> row)]
    ELSE [ok |-> FALSE, exc |-> "IntegrityError", users |-> us]

\* User.query.all(), in id order
RECURSIVE AllRows(_, _)
AllRows(us, from) ==
    IF \A i \in DOMAIN us : i < from THEN <<>>
    ELSE IF from \in DOMAIN us
         THEN <<ToJson(from, us[from])>> \o AllRows(us, from + 1)
         ELSE AllRows(us, from + 1)

\* User.query.get(user_id): the object as loaded into the session
Load(us, id) == [id |-> id, loaded |-> us[id], cur |-> us[id]]

\* user.<key> = value
SetAttr(obj, key, value) == [obj EXCEPT !.cur[key] = value]

\* the attributes the unit of work sees as modified
Modified(obj) == {k \in Keys : obj.cur[k] # obj.loaded[k]}

\* the row an UPDATE of the columns cols leaves
Updated(row, obj, cols) == [k \in Keys |-> IF k \in cols THEN obj.cur[k] ELSE row[k]]

\* (mutant) the UPDATE sets the name column only
FlushUpdateNameOnly(us, obj) ==
    IF obj.id \notin DOMAIN us \/ ~NotNullOk(obj.cur)
    THEN [ok |-> FALSE, exc |-> "Error", users |-> us]
    ELSE [ok |-> TRUE, exc |-> "",
          users |-> [us EXCEPT ![obj.id] = Updated(@, obj, {"name"})]]

\* (mutant) the two assignments are flushed as two UPDATEs, the role first,
\* and the commit covers only the first
FlushUpdateRoleOnly(us, obj) ==
    IF obj.id \notin DOMAIN us \/ ~NotNullOk(obj.cur)
    THEN [ok |-> FALSE, exc |-> "Error", users |-> us]
    ELSE [ok |-> TRUE, exc |-> "",
          users |-> [us EXCEPT ![obj.id] = Updated(@, obj, {"role"})]]

\* (mutant) the UPDATE has no WHERE clause
FlushUpdateAllRows(us, obj) ==
    IF obj.id \notin DOMAIN us \/ ~NotNullOk(obj.cur)
    THEN [ok |-> FALSE, exc |-> "Error", users |-> us]
    ELSE [ok |-> TRUE, exc |-> "", users |-> [i \in DOMAIN us |-> obj.cur]]

\* db.session.commit() with a loaded, possibly modified object: no statement
\* when nothing is modified, else UPDATE user SET <modified> WHERE id = obj.id
FlushUpdate(us, obj) ==
    LET cols == Modified(obj) IN
    IF cols = {} THEN [ok |-> TRUE, exc |-> "", users |-> us]
    ELSE IF obj.id \notin DOMAIN us
    THEN [ok |-> FALSE, exc |-> "StaleDataError", users |-> us]
    ELSE IF ~NotNullOk(Updated(us[obj.id], obj, cols))
    THEN [ok |-> FALSE, exc |-> "IntegrityError", users |-> us]
    ELSE [ok |-> TRUE, exc |-> "",
          users |-> [us EXCEPT ![obj.id] = Updated(@, obj, cols)]]

\* (mutant) the session is never committed
FlushDeleteNothing(us, id) == us

\* db.session.delete(user); db.session.commit()
FlushDelete(us, id) == [i \in DOMAIN us \ {id} |-> us[i]]

-----------------------------------------------------------------------------
(* The handlers as functions of the table and the request *)

\* (mutant) User(name=data['name'], role=data['name'])
AddOutcomeTypo(us, data) ==
    IF ~(Keys \subseteq DOMAIN data)
    THEN [resp |-> Fault("POST", 0, "KeyError", ""), users |-> us]
    ELSE LET r == Insert(us, [name |-> data["name"], role |-> data["name"]]) IN
         IF r.ok
         THEN [resp |-> Reply("POST", 0, 201, [message |-> "User added successfully"]),
               users |-> r.users]
         ELSE [resp |-> Fault("POST", 0, r.exc, ""), users |-> us]

\* add_user
AddOutcome(us, data) ==
    IF "name" \notin DOMAIN data
    THEN [resp |-> Fault("POST", 0, "KeyError", "name"), users |-> us]
    ELSE IF "role" \notin DOMAIN data
    THEN [resp |-> Fault("POST", 0, "KeyError", "role"), users |-> us]
    ELSE LET r == Insert(us, [name |-> data["name"], role |-> data["role"]]) IN
         IF r.ok
         THEN [resp |-> Reply("POST", 0, 201, [message |-> "User added successfully"]),
               users |-> r.users]
         ELSE [resp |-> Fault("POST", 0, r.exc, ""), users |-> us]

\* get_user
GetOutcome(us, id) ==
    IF id \in DOMAIN us
    THEN Reply("GET", id, 200, ToJson(id, us[id]))
    ELSE Reply("GET", id, 404, NotFoundBody)

\* (mutant) each assignment is written to the table as it is made
UpdatePrepareAutoflush(us, id, data) ==
    IF id \notin DOMAIN us
    THEN [done |-> TRUE, resp |-> Reply("PUT", id, 404, NotFoundBody), users |-> us,
          obj |-> <<>>]
    ELSE IF "name" \notin DOMAIN data
    THEN [done |-> TRUE, resp |-> Fault("PUT", id, "KeyError", "name"), users |-> us,
          obj |-> Load(us, id)]
    ELSE LET flushed == IF data["name"] = None THEN us
                        ELSE [us EXCEPT ![id].name = data["name"]] IN
         IF "role" \notin DOMAIN data
         THEN [done |-> TRUE, resp |-> Fault("PUT", id, "KeyError", "role"),
               users |-> flushed, obj |-> Load(flushed, id)]
         ELSE [done |-> FALSE, resp |-> Reply("PUT", id, 0, <<>>), users |-> flushed,
               obj |-> SetAttr(Load(flushed, id), "role", data["role"])]

\* update_user up to, not including, db.session.commit(): the lookup and the
\* two assignments.  done: the request has ended (404 or an exception) and its
\* session, with whatever was assigned, is discarded.
UpdatePrepare(us, id, data) ==
    IF id \notin DOMAIN us
    THEN [done |-> TRUE, resp |-> Reply("PUT", id, 404, NotFoundBody), users |-> us,
          obj |-> <<>>]
    ELSE LET user == Load(us, id) IN
         IF "name" \notin DOMAIN data
         THEN [done |-> TRUE, resp |-> Fault("PUT", id, "KeyError", "name"), users |-> us,
               obj |-> user]
         ELSE LET named == SetAttr(user, "name", data["name"]) IN
              IF "role" \notin DOMAIN data
              THEN [done |-> TRUE, resp |-> Fault("PUT", id, "KeyError", "role"),
                    users |-> us, obj |-> named]
              ELSE [done |-> FALSE, resp |-> Reply("PUT", id, 0, <<>>), users |-> us,
                    obj |-> SetAttr(named, "role", data["role"])]

\* update_user from db.session.commit() on
UpdateFinish(us, obj) ==
    LET r == FlushUpdate(us, obj) IN
    IF r.ok
    THEN [resp |-> Reply("PUT", obj.id, 200, [message |-> "User updated successfully"]),
          users |-> r.users]
    ELSE [resp |-> Fault("PUT", obj.id, r.exc, ""), users |-> us]

\* update_user, run to completion
UpdateOutcome(us, id, data) ==
    LET p == UpdatePrepare(us, id, data) IN
    IF p.done THEN [resp |-> p.resp, users |-> p.users]
    ELSE UpdateFinish(p.users, p.obj)

\* delete_user from db.session.delete(user) on
DeleteFinish(us, id) ==
    [resp |-> Reply("DELETE", id, 200, [message |-> "User deleted successfully"]),
     users |-> FlushDelete(us, id)]

\* (mutant) delete_user without the `if user` test
DeleteOutcomeUnchecked(us, id) == DeleteFinish(us, id)

\* delete_user, run to completion
DeleteOutcome(us, id) ==
    IF id \in DOMAIN us THEN DeleteFinish(us, id)
    ELSE [resp |-> Reply("DELETE", id, 404, NotFoundBody), users |-> us]

-----------------------------------------------------------------------------
(* State *)

NoRow == [name |-> None, role |-> None]

\* no request is between lookup and commit
Idle == [pc |-> "idle", op |-> "", obj |-> [id |-> 0, loaded |-> NoRow, cur |-> NoRow]]

Init ==
    /\ users = <<>>
    /\ th = Idle
    /\ resp = Reply("", 0, 0, <<>>)
    /\ written = <<>>
    /\ assigned = {}
    /\ onlyCreates = TRUE
    /\ creates = <<>>

-----------------------------------------------------------------------------
(* The handlers, each run to completion *)

\* GET /
home ==
    /\ resp' = Reply("HOME", 0, 200, "Hello, Flask!")
    /\ UNCHANGED <<users, th>>

\* GET /api/v1/users
get_users ==
    /\ resp' = Reply("LIST", 0, 200, AllRows(users, 1))
    /\ UNCHANGED <<users, th>>

\* POST /api/v1/users
add_user(data) ==
    LET o == AddOutcome(users, data) IN
    /\ o.resp.status = 201 => NextId(users) <= MaxId
    /\ users' = o.users
    /\ resp' = o.resp
    /\ UNCHANGED th

\* GET /api/v1/users/<user_id>
get_user(user_id) ==
    /\ resp' = GetOutcome(users, user_id)
    /\ UNCHANGED <<users, th>>

\* PUT /api/v1/users/<user_id>
update_user(user_id, data) ==
    LET o == UpdateOutcome(users, user_id, data) IN
    /\ users' = o.users
    /\ resp' = o.resp
    /\ UNCHANGED th

\* DELETE /api/v1/users/<user_id>
delete_user(user_id) ==
    LET o == DeleteOutcome(users, user_id) IN
    /\ users' = o.users
    /\ resp' = o.resp
    /\ UNCHANGED th

-----------------------------------------------------------------------------
(* update_user and delete_user in two steps: the lookup, then the commit *)

\* update_user up to db.session.commit()
update_user_lookup(user_id, data) ==
    LET p == UpdatePrepare(users, user_id, data) IN
    /\ th = Idle
    /\ IF p.done
       THEN /\ resp' = p.resp
            /\ UNCHANGED th
       ELSE /\ th' = [pc |-> "commit", op |-> "PUT", obj |-> p.obj]
            /\ UNCHANGED resp
    /\ users' = p.users

\* update_user from db.session.commit() on
update_user_commit ==
    /\ th.pc = "commit"
    /\ th.op = "PUT"
    /\ LET o == UpdateFinish(users, th.obj) IN
       /\ users' = o.users
       /\ resp' = o.resp
    /\ th' = Idle

\* delete_user up to db.session.delete(user)
delete_user_lookup(user_id) ==
    /\ th = Idle
    /\ IF user_id \in DOMAIN users
       THEN /\ th' = [pc |-> "commit", op |-> "DELETE",
                      obj |-> [id |-> user_id, loaded |-> NoRow, cur |-> NoRow]]
            /\ UNCHANGED resp
       ELSE /\ resp' = DeleteOutcome(users, user_id).resp
            /\ UNCHANGED th
    /\ UNCHANGED users

\* delete_user from db.session.delete(user) on
delete_user_commit ==
    /\ th.pc = "commit"
    /\ th.op = "DELETE"
    /\ LET o == DeleteFinish(users, th.obj.id) IN
       /\ users' = o.users
       /\ resp' = o.resp
    /\ th' = Idle

-----------------------------------------------------------------------------
(* One request at a time, with the history *)

Pair(data) == [name |-> data["name"], role |-> data["role"]]

\* history of a successful create: the id is the one the table gained
NoteCreate(data) ==
    LET new == DOMAIN users' \ DOMAIN users IN
    /\ written' = [i \in DOMAIN written \cup new |->
                      IF i \in new THEN Pair(data) ELSE written[i]]
    /\ assigned' = assigned \cup new
    /\ creates' = IF onlyCreates THEN Append(creates, Pair(data)) ELSE creates
    /\ UNCHANGED onlyCreates

\* history of a successful update
NoteUpdate(id, data) ==
    /\ written' = [i \in DOMAIN written \cup {id} |->
                      IF i = id THEN Pair(data) ELSE written[i]]
    /\ onlyCreates' = FALSE
    /\ creates' = <<>>
    /\ UNCHANGED assigned

\* history of a successful delete
NoteDelete(id) ==
    /\ written' = [i \in DOMAIN written \ {id} |-> written[i]]
    /\ onlyCreates' = FALSE
    /\ creates' = <<>>
    /\ UNCHANGED assigned

Home == home /\ UNCHANGED hist

GetUsers == get_users /\ UNCHANGED hist

AddUser(data) ==
    /\ add_user(data)
    /\ IF resp'.status = 201 THEN NoteCreate(data) ELSE UNCHANGED hist

GetUser(id) == get_user(id) /\ UNCHANGED hist

UpdateUser(id, data) ==
    /\ update_user(id, data)
    /\ IF resp'.status = 200 THEN NoteUpdate(id, data) ELSE UNCHANGED hist

DeleteUser(id) ==
    /\ delete_user(id)
    /\ IF resp'.status = 200 THEN NoteDelete(id) ELSE UNCHANGED hist

Next ==
    \/ Home
    \/ GetUsers
    \/ \E data \in Bodies : AddUser(data)
    \/ \E id \in Ids : GetUser(id)
    \/ \E id \in Ids, data \in Bodies : UpdateUser(id, data)
    \/ \E id \in Ids : DeleteUser(id)

Spec == Init /\ [][Next]_vars

-----------------------------------------------------------------------------
(* Two server threads: one serves whole requests while a request of the    *)
(* other is between its lookup and its commit.  The history is not kept,   *)
(* and the bodies carry text values.                                       *)

ServeAdd(data) == add_user(data) /\ UNCHANGED hist

ServeGet(id) == get_user(id) /\ UNCHANGED hist

ServeUpdate(id, data) == update_user(id, data) /\ UNCHANGED hist

ServeDelete(id) == delete_user(id) /\ UNCHANGED hist

UpdateLookup(id, data) == update_user_lookup(id, data) /\ UNCHANGED hist

UpdateCommit == update_user_commit /\ UNCHANGED hist

DeleteLookup(id) == delete_user_lookup(id) /\ UNCHANGED hist

DeleteCommit == delete_user_commit /\ UNCHANGED hist

ConcNext ==
    \/ \E data \in TextBodies : ServeAdd(data)
    \/ \E id \in Ids : ServeGet(id)
    \/ \E id \in Ids, data \in TextBodies : ServeUpdate(id, data)
    \/ \E id \in Ids : ServeDelete(id)
    \/ \E id \in Ids, data \in TextBodies : UpdateLookup(id, data)
    \/ UpdateCommit
    \/ \E id \in Ids : DeleteLookup(id)
    \/ DeleteCommit

ConcSpec == Init /\ [][ConcNext]_vars

-----------------------------------------------------------------------------
(* Properties *)

\* the ids created and since deleted, and not given to a later create
Deleted == assigned \ DOMAIN written

\* C1: for every id created and not since deleted, GET of that id answers 200
\* with the id and exactly the name and role supplied by the most recent
\* successful create or update of it (requests handled one after another).
C1_GetReturnsLastWritten ==
    \A x \in DOMAIN written :
        GetOutcome(users, x) = Reply("GET", x, 200, ToJson(x, written[x]))

\* a GET has answered with the pair of an earlier update or create, after some
\* update or delete succeeded
C1_Witness ==
    /\ ~onlyCreates
    /\ Cardinality(DOMAIN written) = 2
    /\ resp.op = "GET"
    /\ resp.status = 200
    /\ resp.id \in DOMAIN written
    /\ resp.body = ToJson(resp.id, written[resp.id])
    /\ written[1] # written[2]

\* C2: while only creates have succeeded, starting from the empty table, the
\* list answers 200 with exactly one record per successful create, the i-th
\* carrying the name and role the i-th create supplied, all ids distinct; with
\* no create it is the empty sequence.
C2_ListAfterCreates ==
    onlyCreates =>
        LET l == AllRows(users, 1) IN
        /\ Len(l) = Len(creates)
        /\ \A i \in 1..Len(l) :
              /\ l[i].name = creates[i].name
              /\ l[i].role = creates[i].role
        /\ \A i, j \in 1..Len(l) : i # j => l[i].id # l[j].id
        /\ resp.op = "LIST" => resp.status = 200
        /\ (resp.op = "LIST" /\ creates = <<>>) => resp.body = <<>>

\* the list was answered after two creates with different fields
C2_Witness ==
    /\ onlyCreates
    /\ Len(creates) = 2
    /\ creates[1] # creates[2]
    /\ creates[1].name # creates[1].role
    /\ resp.op = "LIST"
    /\ Len(resp.body) = 2

\* C3: a PUT on an existing id with both fields replaces both together.  The
\* step in which it looks the user up and assigns the fields leaves the table
\* as it was, so a GET served before the commit returns the complete old pair;
\* the step in which it commits, the row still being the pair it read, answers
\* 200 and leaves exactly the new pair; and a PUT run to completion leaves a
\* GET answering exactly the new pair.
C3_PutReplacesBoth ==
    [][/\ (th = Idle /\ th'.op = "PUT") => users' = users
       /\ ( /\ th.op = "PUT"
            /\ th' = Idle
            /\ th.obj.id \in DOMAIN users
            /\ users[th.obj.id] = th.obj.loaded )
          => /\ resp' = Reply("PUT", th.obj.id, 200, [message |-> "User updated successfully"])
             /\ users' = [users EXCEPT ![th.obj.id] = th.obj.cur]
       /\ \A id \in DOMAIN users :
             (th' = th /\ resp'.op = "PUT" /\ resp'.id = id) =>
                 \A data \in [Keys -> Texts] :
                     update_user(id, data) =>
                         /\ resp'.status = 200
                         /\ GetOutcome(users', id)
                               = Reply("GET", id, 200, ToJson(id, Pair(data)))
      ]_vars

\* a GET was answered with the complete old pair while a PUT that changes both
\* fields of that id is between its lookup and its commit
C3_Witness ==
    /\ th.pc = "commit"
    /\ th.op = "PUT"
    /\ Modified(th.obj) = Keys
    /\ resp.op = "GET"
    /\ resp.status = 200
    /\ resp.body = ToJson(th.obj.id, th.obj.loaded)

\* C4: once a DELETE of an existing id has answered 200, and until a create is
\* given that id, the id has no record, and every step that answers a GET or
\* a DELETE of it answers 404 with the error body.
C4_DeletedStaysGone ==
    [][/\ Deleted \cap DOMAIN users = {}
       /\ (resp'.op \in {"GET", "DELETE"} /\ resp'.id \in Deleted) =>
             /\ resp'.status = 404
             /\ resp'.body = NotFoundBody
      ]_vars

\* a second DELETE of a deleted id was answered 404
C4_Witness ==
    /\ resp.op = "DELETE"
    /\ resp.status = 404
    /\ resp.id \in Deleted

\* C5: a step that answers a GET, a PUT (whatever its body) or a DELETE of an
\* id with no record answers 404 with {"error": "User not found"} and leaves
\* the table as it was.
C5_MissingIsNotFound ==
    [][(resp'.op \in {"GET", "PUT", "DELETE"} /\ resp'.id \notin DOMAIN users) =>
          /\ resp'.status = 404
          /\ resp'.body = NotFoundBody
          /\ users' = users
      ]_vars

\* a PUT of a deleted id was answered 404 while another record exists
C5_Witness ==
    /\ resp.op = "PUT"
    /\ resp.status = 404
    /\ resp.body = NotFoundBody
    /\ resp.id \in Deleted
    /\ users # <<>>

\* C6: the id given to a new user differs from every id given before, those of
\* deleted users included.
C6_IdNeverReused ==
    [][(DOMAIN users' \ DOMAIN users) \cap assigned = {}]_vars

\* C7 as claimed: every stored record has a non-empty name and role.
C7_NonEmpty ==
    \A i \in DOMAIN users : users[i].name \notin {"", None} /\ users[i].role \notin {"", None}

\* C7 as amended: every stored record has a name and a role that are text, never
\* None; the text may be empty.
C7_NotNull ==
    \A i \in DOMAIN users : users[i].name \in Texts /\ users[i].role \in Texts

\* a record is stored with an empty name, and a request carrying None was refused
C7_Witness ==
    /\ \E i \in DOMAIN users : users[i].name = "" \/ users[i].role = ""
    /\ resp.status = 500
    /\ resp.body.exception = "IntegrityError"

\* C8: a create or an update of an existing id whose body lacks name or role
\* ends in an unhandled exception (500) and leaves the table as it was, so a
\* GET of the id answers as before.
C8_MissingFieldFaults ==
    [][\A data \in Bodies :
          ~(Keys \subseteq DOMAIN data) =>
              /\ (resp'.op = "POST" /\ add_user(data)) =>
                    (resp'.status = 500 /\ users' = users)
              /\ \A id \in DOMAIN users :
                    (resp'.op = "PUT" /\ resp'.id = id /\ update_user(id, data)) =>
                        /\ resp'.status = 500
                        /\ resp'.body.exception = "KeyError"
                        /\ users' = users
                        /\ GetOutcome(users', id) = GetOutcome(users, id)
      ]_vars

\* an update of an existing id, with a name and no role, has raised
C8_Witness ==
    /\ resp.op = "PUT"
    /\ resp.status = 500
    /\ resp.body = [exception |-> "KeyError", arg |-> "role"]
    /\ resp.id \in DOMAIN users
    /\ users[resp.id].name = "a"

\* the records differing between two tables
Changed(before, after) ==
    {i \in DOMAIN before \cup DOMAIN after :
        \/ i \notin DOMAIN before
        \/ i \notin DOMAIN after
        \/ before[i] # after[i]}

\* C9: a step that answers one of the three GET routes leaves the table as it
\* was; one that answers a create leaves every existing record as it was and,
\* answering 201, adds exactly one; one that answers a PUT or a DELETE of id x
\* changes no record but that of x.
C9_Frame ==
    [][/\ resp'.op \in {"HOME", "LIST", "GET"} => users' = users
       /\ resp'.op = "POST" =>
             /\ Changed(users, users') \cap DOMAIN users = {}
             /\ Cardinality(Changed(users, users')) = IF resp'.status = 201 THEN 1 ELSE 0
       /\ resp'.op \in {"PUT", "DELETE"} => Changed(users, users') \subseteq {resp'.id}
      ]_vars

\* two users were created, the first deleted, and the list is the second alone
C9_Witness ==
    /\ resp.op = "LIST"
    /\ DOMAIN users = {2}
    /\ 1 \in Deleted
    /\ 2 \in DOMAIN written
    /\ resp.body = <<ToJson(2, written[2])>>

\* C10: when a PUT commits while, or just after, another PUT of the same id has
\* completed with 200, it completes with 200 too and the stored pair is the
\* pair it supplied: the last commit wins.
C10_LastWriteWins ==
    [][( /\ th.op = "PUT"
         /\ th' = Idle
         /\ resp = Reply("PUT", th.obj.id, 200, [message |-> "User updated successfully"])
         /\ th.obj.cur.name \in Texts
         /\ th.obj.cur.role \in Texts )
       => /\ resp'.status = 200
          /\ th.obj.id \in DOMAIN users'
          /\ users'[th.obj.id] = th.obj.cur
      ]_vars

====
